---- MODULE Spec2Model ----
(***************************************************************************)
(* Model of the frontier-driven crawl of src/src/lib/crawler.js            *)
(* (crawlMunicipalWebsite and its handlers processHtmlPage,                *)
(* processPdfDocument, processSitemap).                                    *)
(*                                                                         *)
(* The site is the environment: the response to a fetch (status, content   *)
(* type, the anchors of a page, the entries of a sitemap) is chosen when   *)
(* the response arrives.                                                   *)
(***************************************************************************)
EXTENDS Integers, Sequences, FiniteSets, TLC

(***************************************************************************)
(* Bounds of the model.                                                    *)
(***************************************************************************)
\* crawler.js:36 sets MAX_PAGES = 50; the model runs the same loop with a
\* smaller budget so that the budget is exhausted on a small site.
MAX_PAGES == 4
\* How many of the five seed URLs of crawler.js:25-31 start in the frontier.
NumSeeds == 1
\* Longest list of anchors on one page / entries in one sitemap.
MaxLinks == 2

(***************************************************************************)
(* URLs.  An absolute URL is a record of what the code reads from it:      *)
(* its origin (startsWith(baseUrl)), the keywords its text includes, and   *)
(* its suffix (href$=".pdf", endsWith('sitemap.xml')).                     *)
(***************************************************************************)
Url(origin, name, ext, words) ==
    [origin |-> origin, name |-> name, ext |-> ext, words |-> words]

BaseOrigin == "base"

AllSeeds ==
    << Url(BaseOrigin, "bylaws-all", "html", {"bylaw"}),
       Url(BaseOrigin, "documents", "html", {"document"}),
       Url(BaseOrigin, "documents/policies", "html", {"document"}),
       Url(BaseOrigin, "documents/reportsplans", "html", {"document"}),
       Url(BaseOrigin, "documents/publications", "html", {"document"}) >>

Min(a, b) == IF a < b THEN a ELSE b

SeedUrls == SubSeq(AllSeeds, 1, Min(NumSeeds, Len(AllSeeds)))

PdfA     == Url(BaseOrigin, "a", "pdf", {})
SitemapU == Url(BaseOrigin, "sitemap", "xml", {})
CouncilU == Url(BaseOrigin, "council", "html", {"council"})
ExtPdf   == Url("other", "x", "pdf", {})

\* Every URL the modelled site can name.
Urls == {SeedUrls[i] : i \in 1..Len(SeedUrls)}
            \cup {PdfA, SitemapU, CouncilU, ExtPdf}

\* The value of the loop variable outside an iteration.
NoUrl == Url("", "", "", {})

\* An href ending in ".pdf" that new URL() rejects.
BadHref == Url("invalid", "", "pdf", {})

Hrefs == Urls \cup {BadHref}

StartsWithBase(u) == u.origin = BaseOrigin
EndsWithPdf(u) == u.ext = "pdf"
EndsWithSitemapXml(u) == u.name = "sitemap" /\ u.ext = "xml"

PriorityKeywords ==
    {"bylaw", "budget", "finance", "council", "department", "policy", "document"}
IsPriority(u) == u.words \cap PriorityKeywords # {}

BylawWords == {"bylaw", "ordinance", "regulation"}
IsBylawUrl(u) == u.words \cap BylawWords # {}

(***************************************************************************)
(* Sequence helpers.                                                       *)
(***************************************************************************)
Includes(seq, x) == \E i \in 1..Len(seq) : seq[i] = x
Unshift(seq, x) == <<x>> \o seq
SeqsUpTo(S, n) == UNION {[1..k -> S] : k \in 0..n}

HasDoc(docs, u) == \E i \in 1..Len(docs) : docs[i].url = u

(***************************************************************************)
(* Responses.                                                              *)
(***************************************************************************)
ContentTypes ==
    {"text/html", "application/pdf", "application/xml", "text/xml", "image/png", ""}
IsHtmlType(ct) == ct = "text/html"
IsPdfType(ct) == ct = "application/pdf"
IsXmlType(ct) == ct \in {"application/xml", "text/xml"}

\* A status is kept as the text the template literal of crawler.js:56 prints.
ErrorStatuses == {"404", "500"}
StatusText(st) == IF st = "404" THEN "Not Found" ELSE "Internal Server Error"
HttpErrorMessage(st) == <<"HTTP error ", st, ": ", StatusText(st)>>
NetworkErrorMessage == <<"request failed">>
InvalidUrlMessage == <<"Invalid URL">>
BodyErrorMessage == <<"body read failed">>

ErrorEntry(u, msg) == [url |-> u, error |-> msg]

\* What the history keeps of a response: its status ("ok", an error status
\* or "network" when fetch() rejected), its content type, the frontier the
\* handler started from, and the <url><loc> entries for which the test of
\* crawler.js:257 held.
Response(status, ct, queue, locs) ==
    [status |-> status, contentType |-> ct, queue |-> queue, locs |-> locs]
NoResponse == Response("none", "", <<>>, <<>>)

VARIABLES
    urlsToVisit,    \* the frontier (crawler.js:25)
    visitedUrls,    \* crawler.js:24
    documents,      \* crawler.js:22
    errors,         \* crawler.js:23
    pageCount,      \* crawler.js:37
    url,            \* the URL of the current iteration (crawler.js:40)
    pc,             \* "loop", "try", "await" or "done"
    fetches,        \* history: how many fetches were issued per URL
    dequeued,       \* history: how many URLs were shifted off the frontier
    skipped,        \* history: the URLs dequeued and skipped as visited
    last            \* history: the response of the iteration that just ended

\* The state of downloadDocuments (documentCrawler.js:164-244).
VARIABLES
    dlDocuments,      \* the parameter documents
    updatedDocuments, \* documentCrawler.js:170
    dlErrors,         \* documentCrawler.js:171
    dlI,              \* the loop variable i (documentCrawler.js:177), 0-based
    dlPromise,        \* batchPromises: per document, how far its callback is
    dlPc,             \* "idle", "start", "group", "await", "pause", "done", "thrown"
    dlFetches,        \* history: fetches issued per document
    dlPauses          \* history: how many pauses were taken

\* The state of vectorizeChunks (vectorizer.js:83-169) and of the clients
\* of vectorizer.js:31-50.
VARIABLES
    openai,           \* vectorizer.js:43-50: is the client initialised
    pinecone,         \* vectorizer.js:32-40: is the client initialised
    vChunks,          \* the parameter chunks
    successCount,     \* vectorizer.js:85
    vErrors,          \* vectorizer.js:84
    vI,               \* the loop variable i (vectorizer.js:112), 0-based
    vPromise,         \* batchPromises: per chunk, how far its callback is
    vPc,              \* "idle", "start", "list", "create", "wait", "batch",
                      \* "await", "pause", "done"
    upserts,          \* history: the vectors handed to index.upsert, per chunk
    vListed,          \* history: "none", or what listIndexes answered about
                      \* the configured index: "present" or "absent"
    vCreate           \* history: createIndex is "none", "issued" or "done"

\* The state of one run of splitIntoChunks (part_003:205-291) and of a
\* second run on the content of its first chunk.
VARIABLES
    text,             \* the parameter text
    chunks,           \* the contents of the returned chunks
    again,            \* the contents of the chunks of the second run
    segPc             \* "idle", "text", "chunks", "again"

\* The state of main (scripts/ingestDocuments.js:24-134).
VARIABLES
    mainPc,           \* the step main is at, "end" or "exit"
    exitCode          \* the argument of process.exit, -1 while running

\* The state of processDocuments, of documentProcessor (part_003:10-66) or
\* of processor (part_004:88-125).
VARIABLES
    pipeline,         \* which of the two modules is running
    pDocuments,       \* the parameter documents
    pI,               \* how many documents the loop has taken
    allChunks,        \* part_003:11, part_004:89
    pErrors,          \* part_003:12; processor has no such list
    pPc               \* "idle", "loop", "done"

\* The state of crawlDocumentLibrary (documentCrawler.js:95-157).
VARIABLES
    libDocuments,     \* documentCrawler.js:98
    libErrors,        \* documentCrawler.js:99
    libK,             \* how many category pages the loop has taken
    libResponses,     \* history: the fetched URLs and how each was answered
    libPc             \* "idle", "main", "category", "done"

crawlVars == <<urlsToVisit, visitedUrls, documents, errors, pageCount, url, pc,
               fetches, dequeued, skipped, last>>
downloadVars == <<dlDocuments, updatedDocuments, dlErrors, dlI, dlPromise, dlPc,
                  dlFetches, dlPauses>>
vectorVars == <<openai, pinecone, vChunks, successCount, vErrors, vI, vPromise,
                vPc, upserts, vListed, vCreate>>
segmentVars == <<text, chunks, again, segPc>>
mainVars == <<mainPc, exitCode>>

processVars == <<pipeline, pDocuments, pI, allChunks, pErrors, pPc>>
libraryVars == <<libDocuments, libErrors, libK, libResponses, libPc>>

vars == <<crawlVars, downloadVars, vectorVars, segmentVars, mainVars,
         processVars, libraryVars>>

\* A function that has not been called.
CrawlIdle ==
    /\ urlsToVisit = <<>>
    /\ visitedUrls = {}
    /\ documents = <<>>
    /\ errors = <<>>
    /\ pageCount = 0
    /\ url = NoUrl
    /\ pc = "idle"
    /\ fetches = [u \in Urls |-> 0]
    /\ dequeued = 0
    /\ skipped = <<>>
    /\ last = NoResponse

DownloadIdle ==
    /\ dlDocuments = <<>>
    /\ updatedDocuments = <<>>
    /\ dlErrors = <<>>
    /\ dlI = 0
    /\ dlPromise = <<>>
    /\ dlPc = "idle"
    /\ dlFetches = <<>>
    /\ dlPauses = 0

VectorIdle ==
    /\ openai = TRUE
    /\ pinecone = TRUE
    /\ vChunks = <<>>
    /\ successCount = 0
    /\ vErrors = <<>>
    /\ vI = 0
    /\ vPromise = <<>>
    /\ vPc = "idle"
    /\ upserts = <<>>
    /\ vListed = "none"
    /\ vCreate = "none"

SegmentIdle ==
    /\ text = <<>>
    /\ chunks = <<>>
    /\ again = <<>>
    /\ segPc = "idle"

ProcessIdle ==
    /\ pipeline = "none"
    /\ pDocuments = <<>>
    /\ pI = 0
    /\ allChunks = <<>>
    /\ pErrors = <<>>
    /\ pPc = "idle"

LibraryIdle ==
    /\ libDocuments = <<>>
    /\ libErrors = <<>>
    /\ libK = 0
    /\ libResponses = <<>>
    /\ libPc = "idle"

MainIdle ==
    /\ mainPc = "idle"
    /\ exitCode = -1

Init ==
    /\ urlsToVisit = SeedUrls
    /\ visitedUrls = {}
    /\ documents = <<>>
    /\ errors = <<>>
    /\ pageCount = 0
    /\ url = NoUrl
    /\ pc = "loop"
    /\ fetches = [u \in Urls |-> 0]
    /\ dequeued = 0
    /\ skipped = <<>>
    /\ last = NoResponse
    /\ DownloadIdle /\ VectorIdle /\ SegmentIdle /\ MainIdle
    /\ ProcessIdle /\ LibraryIdle

(***************************************************************************)
(* The loop of crawlMunicipalWebsite.                                      *)
(***************************************************************************)
\* Variants of the loop condition: one page too many, and no budget.
LoopCondOffByOne == Len(urlsToVisit) > 0 /\ pageCount <= MAX_PAGES
LoopCondNoBudget == Len(urlsToVisit) > 0

\* crawler.js:39.
LoopCond == Len(urlsToVisit) > 0 /\ pageCount < MAX_PAGES

\* Variant of Dequeue without the visited check of crawler.js:42-44.
DequeueNoVisitedCheck ==
    /\ pc = "loop"
    /\ LoopCond
    /\ LET u == Head(urlsToVisit) IN
        /\ urlsToVisit' = Tail(urlsToVisit)
        /\ dequeued' = dequeued + 1
        /\ visitedUrls' = visitedUrls \cup {u}
        /\ pageCount' = pageCount + 1
        /\ url' = u
        /\ pc' = "try"
    /\ last' = NoResponse
    /\ UNCHANGED <<documents, errors, fetches, skipped>>
    /\ UNCHANGED <<downloadVars, vectorVars, segmentVars, mainVars, processVars, libraryVars>>

\* Variant of Dequeue that counts every dequeue, skipped ones too.
DequeueCountsSkips ==
    /\ pc = "loop"
    /\ LoopCond
    /\ LET u == Head(urlsToVisit) IN
        /\ urlsToVisit' = Tail(urlsToVisit)
        /\ dequeued' = dequeued + 1
        /\ pageCount' = pageCount + 1
        /\ IF u \in visitedUrls
           THEN /\ skipped' = Append(skipped, u)
                /\ pc' = "loop"
                /\ UNCHANGED <<visitedUrls, url>>
           ELSE /\ visitedUrls' = visitedUrls \cup {u}
                /\ url' = u
                /\ pc' = "try"
                /\ UNCHANGED skipped
    /\ last' = NoResponse
    /\ UNCHANGED <<documents, errors, fetches>>
    /\ UNCHANGED <<downloadVars, vectorVars, segmentVars, mainVars, processVars, libraryVars>>

\* crawler.js:40-47: shift, skip a visited URL, else mark it and count it.
Dequeue ==
    /\ pc = "loop"
    /\ LoopCond
    /\ LET u == Head(urlsToVisit) IN
        /\ urlsToVisit' = Tail(urlsToVisit)
        /\ dequeued' = dequeued + 1
        /\ IF u \in visitedUrls
           THEN /\ skipped' = Append(skipped, u)
                /\ pc' = "loop"
                /\ UNCHANGED <<visitedUrls, pageCount, url>>
           ELSE /\ visitedUrls' = visitedUrls \cup {u}
                /\ pageCount' = pageCount + 1
                /\ url' = u
                /\ pc' = "try"
                /\ UNCHANGED skipped
    /\ last' = NoResponse
    /\ UNCHANGED <<documents, errors, fetches>>
    /\ UNCHANGED <<downloadVars, vectorVars, segmentVars, mainVars, processVars, libraryVars>>

\* crawler.js:51: the fetch is issued.
IssueFetch ==
    /\ pc = "try"
    /\ fetches' = [fetches EXCEPT ![url] = @ + 1]
    /\ pc' = "await"
    /\ UNCHANGED <<urlsToVisit, visitedUrls, documents, errors, pageCount, url,
                   dequeued, skipped, last>>
    /\ UNCHANGED <<downloadVars, vectorVars, segmentVars, mainVars, processVars, libraryVars>>

\* The end of one iteration of the while loop.
EndIteration(status, ct, locs) ==
    /\ pc' = "loop"
    /\ url' = NoUrl
    /\ last' = Response(status, ct, urlsToVisit, locs)
    /\ UNCHANGED <<visitedUrls, pageCount, fetches, dequeued, skipped>>
    /\ UNCHANGED <<downloadVars, vectorVars, segmentVars, mainVars, processVars, libraryVars>>

\* crawler.js:74-80: fetch() rejects.
FetchNetworkError ==
    /\ pc = "await"
    /\ errors' = Append(errors, ErrorEntry(url, NetworkErrorMessage))
    /\ UNCHANGED <<urlsToVisit, documents>>
    /\ EndIteration("network", "", <<>>)

\* Variant of FetchHttpError in which a failed page ends the crawl.
FetchHttpErrorFatal(st) ==
    /\ pc = "await"
    /\ errors' = Append(errors, ErrorEntry(url, HttpErrorMessage(st)))
    /\ pc' = "done"
    /\ url' = NoUrl
    /\ last' = Response(st, "", urlsToVisit, <<>>)
    /\ UNCHANGED <<urlsToVisit, documents, visitedUrls, pageCount, fetches,
                   dequeued, skipped>>
    /\ UNCHANGED <<downloadVars, vectorVars, segmentVars, mainVars, processVars, libraryVars>>

\* crawler.js:53-59: a response that is not ok.
FetchHttpError(st) ==
    /\ pc = "await"
    /\ errors' = Append(errors, ErrorEntry(url, HttpErrorMessage(st)))
    /\ UNCHANGED <<urlsToVisit, documents>>
    /\ EndIteration(st, "", <<>>)

\* Variant of Dispatch that hands every unknown type to the HTML handler.
DispatchDefaultHtml(ct, u) ==
    IF IsPdfType(ct) THEN "pdf"
    ELSE IF EndsWithSitemapXml(u) \/ IsXmlType(ct) THEN "sitemap"
    ELSE "html"

\* crawler.js:64-72: which handler gets an ok response.
Dispatch(ct, u) ==
    IF IsHtmlType(ct) THEN "html"
    ELSE IF IsPdfType(ct) THEN "pdf"
    ELSE IF EndsWithSitemapXml(u) \/ IsXmlType(ct) THEN "sitemap"
    ELSE "skip"

(***************************************************************************)
(* processHtmlPage.  A page is the list of its anchors a[href], in         *)
(* document order, each given by the URL its href resolves to, and         *)
(* whether its title or body text names a bylaw.  The descriptor fields    *)
(* id, title, department, documentType and date are computed from the link *)
(* text and the URL and are read by no step of the crawl; they are left    *)
(* out.                                                                    *)
(***************************************************************************)
PdfLinkDescriptor(u) == [url |-> u, fileType |-> "pdf", localPath |-> FALSE]
HtmlPageDescriptor(u) == [url |-> u, fileType |-> "html", localPath |-> FALSE]
DownloadedDescriptor(u) == [url |-> u, fileType |-> "pdf", localPath |-> TRUE]

\* crawler.js:155-156: the PDF URL is queued for its download.
EnqueuePdfLink(queue, u) == Append(queue, u)

\* crawler.js:102-157: the loop over a[href$=".pdf"].  new URL() is not
\* guarded here: an href it rejects ends the handler with an exception.
RECURSIVE PdfLinks(_, _, _)
PdfLinks(hrefs, docs, queue) ==
    IF hrefs = <<>>
    THEN [documents |-> docs, urlsToVisit |-> queue, threw |-> FALSE]
    ELSE LET h == Head(hrefs) IN
         IF ~EndsWithPdf(h) THEN PdfLinks(Tail(hrefs), docs, queue)
         ELSE IF h = BadHref
         THEN [documents |-> docs, urlsToVisit |-> queue, threw |-> TRUE]
         ELSE IF HasDoc(docs, h) THEN PdfLinks(Tail(hrefs), docs, queue)
         ELSE PdfLinks(Tail(hrefs), Append(docs, PdfLinkDescriptor(h)),
                       EnqueuePdfLink(queue, h))

\* crawler.js:166-181: one same-domain link that is new to the crawl.
EnqueuePageLink(queue, u) ==
    IF IsPriority(u) THEN Unshift(queue, u) ELSE Append(queue, u)

\* crawler.js:160-187: the loop over a[href]; an invalid href is skipped.
RECURSIVE PageLinks(_, _, _)
PageLinks(hrefs, queue, visited) ==
    IF hrefs = <<>> THEN queue
    ELSE LET h == Head(hrefs) IN
         IF h # BadHref /\ StartsWithBase(h) /\ h \notin visited
                /\ ~Includes(queue, h)
         THEN PageLinks(Tail(hrefs), EnqueuePageLink(queue, h), visited)
         ELSE PageLinks(Tail(hrefs), queue, visited)

\* crawler.js:189-205: the page itself is recorded as a bylaw document.
PageDocuments(docs, u, bylawText) ==
    IF IsBylawUrl(u) \/ bylawText THEN Append(docs, HtmlPageDescriptor(u))
    ELSE docs

\* crawler.js:65 with 94-206.
HandleHtml(ct, hrefs, bylawText) ==
    /\ pc = "await"
    /\ Dispatch(ct, url) = "html"
    /\ LET r == PdfLinks(hrefs, documents, urlsToVisit) IN
        IF r.threw
        THEN /\ documents' = r.documents
             /\ urlsToVisit' = r.urlsToVisit
             /\ errors' = Append(errors, ErrorEntry(url, InvalidUrlMessage))
        ELSE /\ urlsToVisit' = PageLinks(hrefs, r.urlsToVisit, visitedUrls)
             /\ documents' = PageDocuments(r.documents, url, bylawText)
             /\ UNCHANGED errors
    /\ EndIteration("ok", ct, <<>>)

(***************************************************************************)
(* processPdfDocument.                                                     *)
(***************************************************************************)
\* crawler.js:211-244: an unknown PDF is saved and described, a known one
\* is left as it is.
PdfDocuments(docs, u) ==
    IF HasDoc(docs, u) THEN docs ELSE Append(docs, DownloadedDescriptor(u))

\* crawler.js:67 with 211-244.
HandlePdf(ct) ==
    /\ pc = "await"
    /\ Dispatch(ct, url) = "pdf"
    /\ documents' = PdfDocuments(documents, url)
    /\ UNCHANGED <<urlsToVisit, errors>>
    /\ EndIteration("ok", ct, <<>>)

(***************************************************************************)
(* processSitemap.  A sitemap is the list of its <url><loc> texts and the  *)
(* list of its <sitemap><loc> texts.                                       *)
(***************************************************************************)
\* Variant of EnqueueLoc that puts the URL at the front.
EnqueueLocFront(queue, u) == Unshift(queue, u)

\* crawler.js:258: a page URL named by a sitemap.
EnqueueLoc(queue, u) == Append(queue, u)

\* crawler.js:257: the test a <url><loc> entry has to pass.
LocIsNew(u, queue, visited) ==
    StartsWithBase(u) /\ u \notin visited /\ ~Includes(queue, u)

\* crawler.js:254-260.
RECURSIVE UrlLocs(_, _, _)
UrlLocs(locs, queue, visited) ==
    IF locs = <<>> THEN queue
    ELSE LET u == Head(locs) IN
         IF LocIsNew(u, queue, visited)
         THEN UrlLocs(Tail(locs), EnqueueLoc(queue, u), visited)
         ELSE UrlLocs(Tail(locs), queue, visited)

\* History: the <url><loc> entries that passed the test, in document order.
RECURSIVE NewLocs(_, _, _)
NewLocs(locs, queue, visited) ==
    IF locs = <<>> THEN <<>>
    ELSE LET u == Head(locs) IN
         IF LocIsNew(u, queue, visited)
         THEN <<u>> \o NewLocs(Tail(locs), Append(queue, u), visited)
         ELSE NewLocs(Tail(locs), queue, visited)

\* crawler.js:263-269.
RECURSIVE SitemapLocs(_, _, _)
SitemapLocs(locs, queue, visited) ==
    IF locs = <<>> THEN queue
    ELSE LET u == Head(locs) IN
         IF u \notin visited /\ ~Includes(queue, u)
         THEN SitemapLocs(Tail(locs), Unshift(queue, u), visited)
         ELSE SitemapLocs(Tail(locs), queue, visited)

\* crawler.js:69 with 249-270.
HandleSitemap(ct, locs, sitemaps) ==
    /\ pc = "await"
    /\ Dispatch(ct, url) = "sitemap"
    /\ urlsToVisit' =
           SitemapLocs(sitemaps, UrlLocs(locs, urlsToVisit, visitedUrls),
                       visitedUrls)
    /\ UNCHANGED <<documents, errors>>
    /\ EndIteration("ok", ct, NewLocs(locs, urlsToVisit, visitedUrls))

\* crawler.js:70-72.
SkipUnsupported(ct) ==
    /\ pc = "await"
    /\ Dispatch(ct, url) = "skip"
    /\ UNCHANGED <<urlsToVisit, documents, errors>>
    /\ EndIteration("ok", ct, <<>>)

\* crawler.js:74-80 with 95, 218-222 and 250: reading the body of an ok
\* response, or writing the PDF file, throws before the handler changed
\* anything.
HandlerBodyError(ct) ==
    /\ pc = "await"
    /\ \/ Dispatch(ct, url) \in {"html", "sitemap"}
       \/ Dispatch(ct, url) = "pdf" /\ ~HasDoc(documents, url)
    /\ errors' = Append(errors, ErrorEntry(url, BodyErrorMessage))
    /\ UNCHANGED <<urlsToVisit, documents>>
    /\ EndIteration("ok", ct, <<>>)

\* crawler.js:39 and 83-88: the loop ends and the result is returned.
Return ==
    /\ pc = "loop"
    /\ ~LoopCond
    /\ pc' = "done"
    /\ UNCHANGED <<urlsToVisit, visitedUrls, documents, errors, pageCount, url,
                   fetches, dequeued, skipped, last>>
    /\ UNCHANGED <<downloadVars, vectorVars, segmentVars, mainVars, processVars, libraryVars>>

\* The pages the site can answer with.
HtmlBodies == SeqsUpTo(Hrefs, MaxLinks)

\* The sitemaps the site can answer with: at most MaxLinks entries in all.
SitemapBodies ==
    {b \in SeqsUpTo(Urls, MaxLinks) \X SeqsUpTo(Urls, MaxLinks) :
        Len(b[1]) + Len(b[2]) <= MaxLinks}

\* The content types that send the awaited response to handler h.
HandledBy(h) ==
    IF pc = "await" THEN {ct \in ContentTypes : Dispatch(ct, url) = h} ELSE {}

Next ==
    \/ Dequeue
    \/ IssueFetch
    \/ FetchNetworkError
    \/ \E st \in ErrorStatuses : FetchHttpError(st)
    \/ \E ct \in HandledBy("html") : \E hrefs \in HtmlBodies, bylawText \in BOOLEAN :
          HandleHtml(ct, hrefs, bylawText)
    \/ \E ct \in ContentTypes : HandlePdf(ct)
    \/ \E ct \in HandledBy("sitemap") : \E b \in SitemapBodies :
          HandleSitemap(ct, b[1], b[2])
    \/ \E ct \in ContentTypes : SkipUnsupported(ct)
    \/ \E ct \in ContentTypes : HandlerBodyError(ct)
    \/ Return

Spec == Init /\ [][Next]_vars

\* The loop runs on: every fetch returns and every handler finishes.
FairSpec == Spec /\ WF_vars(Next)

(***************************************************************************)
(* Properties.                                                             *)
(***************************************************************************)
RECURSIVE SumFetches(_)
SumFetches(S) ==
    IF S = {} THEN 0
    ELSE LET u == CHOOSE x \in S : TRUE IN fetches[u] + SumFetches(S \ {u})

FetchTotal == SumFetches(Urls)

UrlCount(seq, u) == Cardinality({i \in 1..Len(seq) : seq[i].url = u})

\* C1: in every state of a crawl the visited set holds at most MAX_PAGES
\* URLs and at most MAX_PAGES fetches have been issued.
VisitedWithinBudget ==
    /\ Cardinality(visitedUrls) <= MAX_PAGES
    /\ FetchTotal <= MAX_PAGES

\* The budget is used up while the frontier still holds URLs.
BudgetExhausted ==
    /\ Cardinality(visitedUrls) = MAX_PAGES
    /\ FetchTotal = MAX_PAGES
    /\ urlsToVisit # <<>>

\* C2: no URL is fetched more than once; a URL is in the visited set before
\* its fetch is issued, and a skipped URL gets no further fetch.
NoUrlFetchedTwice ==
    /\ \A u \in Urls : fetches[u] <= 1 /\ (fetches[u] = 1 => u \in visitedUrls)
    /\ pc \in {"try", "await"} => url \in visitedUrls /\ fetches[url] <= 1
    /\ \A i \in 1..Len(skipped) :
          skipped[i] \in visitedUrls /\ (pc = "await" => skipped[i] # url)

\* A URL whose fetch failed was dequeued again and skipped.
SkippedAfterFailedFetch ==
    \E i \in 1..Len(skipped) :
        /\ fetches[skipped[i]] = 1
        /\ UrlCount(errors, skipped[i]) = 1

\* C3: the documents of a crawl result never name one url twice.
DocumentUrlsUnique ==
    pc = "done" =>
        \A i, j \in 1..Len(documents) :
            i # j => documents[i].url # documents[j].url

\* C4: the crawl terminates; at its end the frontier is empty or MAX_PAGES
\* URLs are visited; and once MAX_PAGES URLs are visited the loop does
\* nothing but return, whatever the frontier holds.
CrawlTerminates ==
    /\ <>(pc = "done")
    /\ [](pc = "done" =>
            (urlsToVisit = <<>> \/ Cardinality(visitedUrls) = MAX_PAGES))
    /\ [][(pc = "loop" /\ Cardinality(visitedUrls) = MAX_PAGES)
             => pc' = "done"]_vars

\* The crawl has returned with unvisited URLs left in the frontier.
StoppedByBudget ==
    /\ pc = "done"
    /\ Cardinality(visitedUrls) = MAX_PAGES
    /\ \E i \in 1..Len(urlsToVisit) : urlsToVisit[i] \notin visitedUrls

FailedFetchRecorded ==
    [][(pc = "await" /\ last'.status \in ErrorStatuses \cup {"network"}) =>
          /\ Len(errors') = Len(errors) + 1
          /\ SubSeq(errors', 1, Len(errors)) = errors
          /\ errors'[Len(errors')].url = url
          /\ UrlCount(errors', url) = 1
          /\ last'.status \in ErrorStatuses =>
                Includes(errors'[Len(errors')].error, last'.status)
          /\ pc' = "loop"
          /\ urlsToVisit' = urlsToVisit
          /\ documents' = documents]_vars

\* After a 404 was recorded the crawl is fetching another URL.
CrawlContinuedAfterFailure ==
    \E i \in 1..Len(errors) :
        /\ Includes(errors[i].error, "404")
        /\ pc = "await"
        /\ url # errors[i].url

\* C7 as stated: after a sitemap is handled, every <url><loc> entry that
\* was new is in the frontier in front of every URL that was waiting.
SitemapLocsAtFront ==
    (pc = "loop" /\ last.status = "ok") =>
        \A k \in 1..Len(last.locs) :
            /\ Includes(urlsToVisit, last.locs[k])
            /\ \A i, j \in 1..Len(urlsToVisit) :
                  (/\ urlsToVisit[i] = last.locs[k]
                   /\ Includes(last.queue, urlsToVisit[j]))
                  => i < j

\* C7 amended: after a sitemap is handled, every <url><loc> entry that was
\* new is in the frontier behind every URL that was waiting.
SitemapLocsAtBack ==
    (pc = "loop" /\ last.status = "ok") =>
        \A k \in 1..Len(last.locs) :
            /\ Includes(urlsToVisit, last.locs[k])
            /\ \A i, j \in 1..Len(urlsToVisit) :
                  (/\ urlsToVisit[i] = last.locs[k]
                   /\ Includes(last.queue, urlsToVisit[j]))
                  => j < i

\* A sitemap with new <url><loc> entries was handled while URLs were
\* waiting.
SitemapLocBehindWaiting ==
    /\ pc = "loop"
    /\ last.status = "ok"
    /\ last.locs # <<>>
    /\ last.queue # <<>>

\* C8: the frontier never holds a URL twice nor a URL that is visited.
FrontierHasNoDuplicateNorVisited ==
    \A i \in 1..Len(urlsToVisit) :
        /\ urlsToVisit[i] \notin visitedUrls
        /\ \A j \in 1..Len(urlsToVisit) :
              i # j => urlsToVisit[i] # urlsToVisit[j]

\* C9: once a URL is fetched successfully as application/pdf, every PDF
\* descriptor with that url has its localPath set.
LinkedPdfGetsLocalPath ==
    [][(/\ pc = "await"
        /\ last'.status = "ok"
        /\ IsPdfType(last'.contentType)
        /\ errors' = errors) =>
          \A i \in 1..Len(documents') :
             (documents'[i].url = url /\ documents'[i].fileType = "pdf")
                => documents'[i].localPath]_vars

\* C10: an ok response of an unsupported content type, for a URL that does
\* not end in sitemap.xml, changes neither documents, errors nor the
\* frontier; the URL stays visited and counted.
UnsupportedTypeSkipped ==
    [][(/\ pc = "await"
        /\ last'.status = "ok"
        /\ ~IsHtmlType(last'.contentType)
        /\ ~IsPdfType(last'.contentType)
        /\ ~IsXmlType(last'.contentType)
        /\ ~EndsWithSitemapXml(url)) =>
          /\ documents' = documents
          /\ errors' = errors
          /\ urlsToVisit' = urlsToVisit
          /\ url \in visitedUrls'
          /\ pageCount' = pageCount
          /\ pageCount' = Cardinality(visitedUrls')
          /\ pc' = "loop"]_vars

\* A URL was answered with an image, and the crawl has more to do.
UnsupportedSkipped ==
    /\ pc = "loop"
    /\ last.status = "ok"
    /\ last.contentType = "image/png"
    /\ last.queue = urlsToVisit
    /\ LoopCond

(***************************************************************************)
(* downloadDocuments (src/src/lib/documentCrawler.js:164-244).             *)
(*                                                                         *)
(* A document descriptor is what extractPdfLinks builds (lines 73-81); of  *)
(* its fields the download reads url, fileSizeKB and title, and it adds    *)
(* localPath, skipped (with reason) or error.  The j-th descriptor of the  *)
(* input has the url j.  fileSizeKB is 0 where the link text names no size *)
(* (null at line 59, which line 183 treats like 0).                        *)
(***************************************************************************)
\* documentCrawler.js:176 sets BATCH_SIZE = 5; the model runs the same loop
\* with smaller groups.
DOWNLOAD_BATCH_SIZE == 2
\* Longest list of descriptors handed to downloadDocuments.
MaxDocs == 4
\* documentCrawler.js:183: the largest declared size that is downloaded.
MAX_FILE_SIZE_KB == 20000

NoError == <<>>
FileSizes == {0, MAX_FILE_SIZE_KB, MAX_FILE_SIZE_KB + 1}

LibraryDocument(j, size) ==
    [url |-> j, fileSizeKB |-> size, localPath |-> FALSE, skipped |-> FALSE,
     error |-> NoError]

DocumentLists ==
    UNION {{[j \in 1..n |-> LibraryDocument(j, sizes[j])] :
               sizes \in [1..n -> FileSizes]} : n \in 0..MaxDocs}

\* A promise of batchPromises: "new" (its callback has not run), "fetch"
\* (awaiting fetch, line 193), "buffer" (awaiting response.buffer, line 208)
\* or "settled" with the descriptor the callback returned.
Pending(state) == [state |-> state, value |-> LibraryDocument(0, 0)]
Settled(doc) == [state |-> "settled", value |-> doc]

\* Variant of IsTooLarge with the threshold one KB higher.
IsTooLargeOffByOne(doc) ==
    doc.fileSizeKB # 0 /\ doc.fileSizeKB > MAX_FILE_SIZE_KB + 1

\* documentCrawler.js:183.
IsTooLarge(doc) == doc.fileSizeKB # 0 /\ doc.fileSizeKB > MAX_FILE_SIZE_KB

\* documentCrawler.js:185-189, 211-214 and 221-224.
SkippedDocument(doc) == [doc EXCEPT !.skipped = TRUE]
SavedDocument(doc) == [doc EXCEPT !.localPath = TRUE]
FailedDocument(doc, msg) == [doc EXCEPT !.error = msg]

\* documentCrawler.js:178: the indices of documents.slice(i, i + BATCH_SIZE).
Batch(i) == (i + 1)..Min(i + DOWNLOAD_BATCH_SIZE, Len(dlDocuments))

DownloadInit ==
    /\ dlDocuments \in DocumentLists
    /\ updatedDocuments = <<>>
    /\ dlErrors = <<>>
    /\ dlI = 0
    /\ dlPromise = [j \in 1..Len(dlDocuments) |-> Pending("new")]
    /\ dlPc = "start"
    /\ dlFetches = [j \in 1..Len(dlDocuments) |-> 0]
    /\ dlPauses = 0
    /\ CrawlIdle /\ VectorIdle /\ SegmentIdle /\ MainIdle
    /\ ProcessIdle /\ LibraryIdle

\* documentCrawler.js:165 with 19-33: the download directory exists or is made.
DirectoryCreated ==
    /\ dlPc = "start"
    /\ dlPc' = "group"
    /\ UNCHANGED <<dlDocuments, updatedDocuments, dlErrors, dlI, dlPromise,
                   dlFetches, dlPauses>>
    /\ UNCHANGED <<crawlVars, vectorVars, segmentVars, mainVars, processVars, libraryVars>>

\* documentCrawler.js:166-168 with 29-32: createDirectories returned null.
DirectoryFailed ==
    /\ dlPc = "start"
    /\ dlPc' = "thrown"
    /\ UNCHANGED <<dlDocuments, updatedDocuments, dlErrors, dlI, dlPromise,
                   dlFetches, dlPauses>>
    /\ UNCHANGED <<crawlVars, vectorVars, segmentVars, mainVars, processVars, libraryVars>>

\* documentCrawler.js:177-193: batch.map runs every callback up to its first
\* await: a too large document is settled as skipped, for every other one
\* the fetch is issued.
StartGroup ==
    /\ dlPc = "group"
    /\ dlI < Len(dlDocuments)
    /\ dlPromise' =
          [j \in 1..Len(dlDocuments) |->
              IF j \notin Batch(dlI) THEN dlPromise[j]
              ELSE IF IsTooLarge(dlDocuments[j])
                   THEN Settled(SkippedDocument(dlDocuments[j]))
                   ELSE Pending("fetch")]
    /\ dlFetches' =
          [j \in 1..Len(dlDocuments) |->
              IF j \in Batch(dlI) /\ ~IsTooLarge(dlDocuments[j])
              THEN dlFetches[j] + 1 ELSE dlFetches[j]]
    /\ dlPc' = "await"
    /\ UNCHANGED <<dlDocuments, updatedDocuments, dlErrors, dlI, dlPauses>>
    /\ UNCHANGED <<crawlVars, vectorVars, segmentVars, mainVars, processVars, libraryVars>>

\* What every step of one callback leaves alone.
CallbackFrame ==
    /\ UNCHANGED <<dlDocuments, updatedDocuments, dlI, dlPc, dlFetches, dlPauses>>
    /\ UNCHANGED <<crawlVars, vectorVars, segmentVars, mainVars, processVars, libraryVars>>

\* documentCrawler.js:215-225: the catch of one callback.
DownloadFailed(j, msg) ==
    /\ dlErrors' = Append(dlErrors, ErrorEntry(dlDocuments[j].url, msg))
    /\ dlPromise' = [dlPromise EXCEPT
                        ![j] = Settled(FailedDocument(dlDocuments[j], msg))]
    /\ CallbackFrame

\* documentCrawler.js:193: fetch() rejects.
FetchRejected(j) ==
    /\ dlPromise[j].state = "fetch"
    /\ DownloadFailed(j, NetworkErrorMessage)

\* Variant of ResponseNotOk in which the error leaves the callback, so that
\* Promise.all rejects and downloadDocuments throws.
ResponseNotOkRejects(j, st) ==
    /\ dlPromise[j].state = "fetch"
    /\ dlPromise' = [dlPromise EXCEPT
          ![j] = Settled(FailedDocument(dlDocuments[j], HttpErrorMessage(st)))]
    /\ dlPc' = "thrown"
    /\ UNCHANGED <<dlDocuments, updatedDocuments, dlErrors, dlI, dlFetches,
                   dlPauses>>
    /\ UNCHANGED <<crawlVars, vectorVars, segmentVars, mainVars, processVars, libraryVars>>

\* documentCrawler.js:195-197: a response that is not ok.
ResponseNotOk(j, st) ==
    /\ dlPromise[j].state = "fetch"
    /\ DownloadFailed(j, HttpErrorMessage(st))

\* documentCrawler.js:195-208: an ok response; its body is awaited.
ResponseOk(j) ==
    /\ dlPromise[j].state = "fetch"
    /\ dlPromise' = [dlPromise EXCEPT ![j] = Pending("buffer")]
    /\ UNCHANGED dlErrors
    /\ CallbackFrame

\* documentCrawler.js:208-214: the file is written.
FileSaved(j) ==
    /\ dlPromise[j].state = "buffer"
    /\ dlPromise' = [dlPromise EXCEPT
                        ![j] = Settled(SavedDocument(dlDocuments[j]))]
    /\ UNCHANGED dlErrors
    /\ CallbackFrame

\* documentCrawler.js:208-209: response.buffer() rejects or writeFileSync
\* throws.
SaveFailed(j) ==
    /\ dlPromise[j].state = "buffer"
    /\ DownloadFailed(j, BodyErrorMessage)

\* Variant of BatchSettled: the group is over with its first settled promise.
BatchRaced(i) == \E j \in Batch(i) : dlPromise[j].state = "settled"

\* documentCrawler.js:228: Promise.all of promises that never reject.
BatchSettled(i) == \A j \in Batch(i) : dlPromise[j].state = "settled"

\* Variant of BatchResults: the results in the reverse order of the batch.
BatchResultsReversed(i) ==
    [k \in 1..Cardinality(Batch(i)) |->
        dlPromise[i + Cardinality(Batch(i)) + 1 - k].value]

\* documentCrawler.js:229: batchResults, in the order of the batch.
BatchResults(i) ==
    [k \in 1..Cardinality(Batch(i)) |-> dlPromise[i + k].value]

\* Variant of MoreGroups that pauses after the last group too.
MoreGroupsAlways(i) == TRUE

\* documentCrawler.js:232.
MoreGroups(i) == i + DOWNLOAD_BATCH_SIZE < Len(dlDocuments)

\* documentCrawler.js:228-234: the group is over; the pause starts if another
\* group follows.
GroupSettled ==
    /\ dlPc = "await"
    /\ BatchSettled(dlI)
    /\ updatedDocuments' = updatedDocuments \o BatchResults(dlI)
    /\ IF MoreGroups(dlI)
       THEN /\ dlPc' = "pause"
            /\ dlPauses' = dlPauses + 1
            /\ UNCHANGED dlI
       ELSE /\ dlPc' = "group"
            /\ dlI' = dlI + DOWNLOAD_BATCH_SIZE
            /\ UNCHANGED dlPauses
    /\ UNCHANGED <<dlDocuments, dlErrors, dlPromise, dlFetches>>
    /\ UNCHANGED <<crawlVars, vectorVars, segmentVars, mainVars, processVars, libraryVars>>

\* documentCrawler.js:233 and 177: the timer fires, i += BATCH_SIZE.
PauseOver ==
    /\ dlPc = "pause"
    /\ dlI' = dlI + DOWNLOAD_BATCH_SIZE
    /\ dlPc' = "group"
    /\ UNCHANGED <<dlDocuments, updatedDocuments, dlErrors, dlPromise,
                   dlFetches, dlPauses>>
    /\ UNCHANGED <<crawlVars, vectorVars, segmentVars, mainVars, processVars, libraryVars>>

\* documentCrawler.js:177 and 237-243: the loop ends, the result is returned.
DownloadReturn ==
    /\ dlPc = "group"
    /\ dlI >= Len(dlDocuments)
    /\ dlPc' = "done"
    /\ UNCHANGED <<dlDocuments, updatedDocuments, dlErrors, dlI, dlPromise,
                   dlFetches, dlPauses>>
    /\ UNCHANGED <<crawlVars, vectorVars, segmentVars, mainVars, processVars, libraryVars>>

\* The documents whose callback awaits something.
Awaiting(state) ==
    {j \in 1..Len(dlDocuments) : dlPromise[j].state = state}

DownloadNext ==
    \/ DirectoryCreated
    \/ DirectoryFailed
    \/ StartGroup
    \/ \E j \in Awaiting("fetch") : FetchRejected(j)
    \/ \E j \in Awaiting("fetch") : \E st \in ErrorStatuses : ResponseNotOk(j, st)
    \/ \E j \in Awaiting("fetch") : ResponseOk(j)
    \/ \E j \in Awaiting("buffer") : FileSaved(j)
    \/ \E j \in Awaiting("buffer") : SaveFailed(j)
    \/ GroupSettled
    \/ PauseOver
    \/ DownloadReturn

DownloadSpec == DownloadInit /\ [][DownloadNext]_vars

(***************************************************************************)
(* Properties of downloadDocuments.                                        *)
(***************************************************************************)
DocIndices == 1..Len(dlDocuments)
ErrorsFor(u) == {k \in 1..Len(dlErrors) : dlErrors[k].url = u}
GroupOf(j) == (j - 1) \div DOWNLOAD_BATCH_SIZE
InFlight == Awaiting("fetch") \cup Awaiting("buffer")

\* C11: a descriptor whose declared size exceeds 20,000 KB is returned
\* marked skipped, with no fetch issued for its url, no localPath and no
\* entry in errors.
LargeDocumentSkipped ==
    \A j \in DocIndices :
        dlDocuments[j].fileSizeKB > MAX_FILE_SIZE_KB =>
            /\ dlFetches[j] = 0
            /\ ErrorsFor(dlDocuments[j].url) = {}
            /\ dlPromise[j].state \in {"new", "settled"}
            /\ dlPromise[j].state = "settled" =>
                   dlPromise[j].value = SkippedDocument(dlDocuments[j])
            /\ dlPc = "done" =>
                   /\ Len(updatedDocuments) = Len(dlDocuments)
                   /\ updatedDocuments[j].url = dlDocuments[j].url
                   /\ updatedDocuments[j].skipped
                   /\ ~updatedDocuments[j].localPath
                   /\ updatedDocuments[j].error = NoError

\* C11 witness: a download has returned a skipped large document next to a
\* saved one of exactly 20,000 KB.
LargeSkippedSmallSaved ==
    /\ dlPc = "done"
    /\ \E j, k \in DocIndices :
        /\ dlDocuments[j].fileSizeKB > MAX_FILE_SIZE_KB
        /\ updatedDocuments[j].skipped
        /\ dlDocuments[k].fileSizeKB = MAX_FILE_SIZE_KB
        /\ updatedDocuments[k].localPath

\* C12: when the download of one descriptor fails, one entry {url, error}
\* is recorded for it and its returned descriptor has no localPath; every
\* other descriptor of its group and of the later groups is still attempted
\* and returned.
DownloadFailureIsolated ==
    /\ dlPc = "thrown" => \A j \in DocIndices : dlPromise[j].state = "new"
    /\ \A j \in DocIndices :
        (dlPromise[j].state = "settled" /\ dlPromise[j].value.error # NoError) =>
            /\ ~dlPromise[j].value.localPath
            /\ Cardinality(ErrorsFor(dlDocuments[j].url)) = 1
            /\ \A k \in ErrorsFor(dlDocuments[j].url) :
                   dlErrors[k].error = dlPromise[j].value.error
    /\ dlPc = "done" =>
        /\ Len(updatedDocuments) = Len(dlDocuments)
        /\ \A j \in DocIndices :
            /\ updatedDocuments[j] = dlPromise[j].value
            /\ updatedDocuments[j].url = dlDocuments[j].url
            /\ dlFetches[j] = IF dlDocuments[j].fileSizeKB > MAX_FILE_SIZE_KB
                              THEN 0 ELSE 1
            /\ \/ updatedDocuments[j].localPath
               \/ updatedDocuments[j].skipped
               \/ updatedDocuments[j].error # NoError

\* C12 witness: the first document failed with an HTTP error, and a document
\* of its group and one of the next group were saved.
SavedAfterFailure ==
    /\ dlPc = "done"
    /\ Len(dlDocuments) > DOWNLOAD_BATCH_SIZE
    /\ updatedDocuments[1].error = HttpErrorMessage("404")
    /\ dlErrors = <<ErrorEntry(1, HttpErrorMessage("404"))>>
    /\ updatedDocuments[2].localPath
    /\ updatedDocuments[DOWNLOAD_BATCH_SIZE + 1].localPath

\* C13: at most BATCH_SIZE downloads are in flight; no download of a group
\* starts before every download of the groups before it has settled; one
\* pause is taken between two consecutive groups and none after the last.
DownloadsBatched ==
    /\ Cardinality(InFlight) <= DOWNLOAD_BATCH_SIZE
    /\ \A j, k \in DocIndices :
        (GroupOf(j) < GroupOf(k) /\ dlPromise[k].state # "new") =>
            dlPromise[j].state = "settled"
    /\ \A k \in DocIndices :
        dlPromise[k].state # "new" => dlPauses >= GroupOf(k)
    /\ (dlPc = "await" \/ (dlPc = "group" /\ dlI < Len(dlDocuments))) =>
        dlPauses = dlI \div DOWNLOAD_BATCH_SIZE
    /\ dlPc = "pause" => dlI + DOWNLOAD_BATCH_SIZE < Len(dlDocuments)
    /\ dlPc = "done" =>
        dlPauses = IF dlDocuments = <<>> THEN 0
                   ELSE GroupOf(Len(dlDocuments))

\* C13 witness: the second group is in flight at full size after one pause,
\* its downloads at different stages.
SecondGroupInFlight ==
    /\ dlPc = "await"
    /\ dlI = DOWNLOAD_BATCH_SIZE
    /\ dlPauses = 1
    /\ Cardinality(InFlight) = DOWNLOAD_BATCH_SIZE
    /\ Awaiting("fetch") # {}
    /\ Awaiting("buffer") # {}

(***************************************************************************)
(* vectorizeChunks and generateEmbedding (src/src/lib/vectorizer.js).      *)
(*                                                                         *)
(* The j-th chunk of the input has the id j.  The embedding provider and   *)
(* the vector store are the environment: a call to either resolves or      *)
(* rejects when its answer arrives.                                        *)
(***************************************************************************)
\* vectorizer.js:111 sets BATCH_SIZE = 10; the model runs the same loop with
\* smaller batches.
VECTOR_BATCH_SIZE == 2
\* Longest list of chunks handed to vectorizeChunks.
MaxChunks == 5
\* vectorizer.js:60 and 74: the length of the mock embedding.
EMBEDDING_DIMENSION == 1536

\* vectorizer.js:60 and 74: new Array(1536).fill(0).
ZeroVector == [k \in 1..EMBEDDING_DIMENSION |-> 0]
\* vectorizer.js:70: an embedding the provider returned.
ProviderVector == [k \in 1..EMBEDDING_DIMENSION |-> 1]

\* A promise of batchPromises: "new", "embed" (awaiting the provider, line
\* 64), "upsert" (awaiting index.upsert, line 130), "ok" or "failed"; mock
\* tells whether generateEmbedding returned the mock embedding.
ChunkPromise(state, mock) == [state |-> state, mock |-> mock]

\* vectorizer.js:113: the indices of chunks.slice(i, i + BATCH_SIZE).
ChunkBatch(i) == (i + 1)..Min(i + VECTOR_BATCH_SIZE, Len(vChunks))

VectorInit ==
    /\ openai \in BOOLEAN
    /\ pinecone \in BOOLEAN
    /\ vChunks \in {[j \in 1..n |-> j] : n \in 0..MaxChunks}
    /\ successCount = 0
    /\ vErrors = <<>>
    /\ vI = 0
    /\ vPromise = [j \in 1..Len(vChunks) |-> ChunkPromise("new", FALSE)]
    /\ vPc = "start"
    /\ upserts = [j \in 1..Len(vChunks) |-> <<>>]
    /\ vListed = "none"
    /\ vCreate = "none"
    /\ CrawlIdle /\ DownloadIdle /\ SegmentIdle /\ MainIdle
    /\ ProcessIdle /\ LibraryIdle

\* vectorizer.js:162: the id 'global' of an error that belongs to no chunk
\* (the chunks have the ids 1, 2, ...).
GlobalId == 0

\* vectorizer.js:160-168: the outer catch.
GlobalError(msg) ==
    /\ vErrors' = Append(vErrors, [id |-> GlobalId, error |-> msg])
    /\ vPc' = "failed"
    /\ UNCHANGED <<vListed, vCreate, openai, pinecone, vChunks, successCount, vI, vPromise, upserts>>
    /\ UNCHANGED <<crawlVars, downloadVars, segmentVars, mainVars, processVars, libraryVars>>

\* vectorizer.js:88-90: the vector client was not initialised.
ClientMissing ==
    /\ vPc = "start"
    /\ ~pinecone
    /\ GlobalError(<<"Pinecone client not initialized">>)

\* vectorizer.js:93-96 and 108: listIndexes names the configured index.
IndexReady ==
    /\ vPc = "start"
    /\ pinecone
    /\ vListed' = "present"
    /\ vPc' = "batch"
    /\ UNCHANGED <<vCreate, openai, pinecone, vChunks, successCount, vErrors, vI,
                   vPromise, upserts>>
    /\ UNCHANGED <<crawlVars, downloadVars, segmentVars, mainVars, processVars, libraryVars>>

\* Variant of IndexMissing in which createIndex is not awaited.
IndexMissingNotAwaited ==
    /\ vPc = "start"
    /\ pinecone
    /\ vListed' = "absent"
    /\ vCreate' = "issued"
    /\ vPc' = "batch"
    /\ UNCHANGED <<openai, pinecone, vChunks, successCount, vErrors, vI,
                   vPromise, upserts>>
    /\ UNCHANGED <<crawlVars, downloadVars, segmentVars, mainVars, processVars, libraryVars>>

\* vectorizer.js:93-102: listIndexes does not name the configured index;
\* createIndex is called.
IndexMissing ==
    /\ vPc = "start"
    /\ pinecone
    /\ vListed' = "absent"
    /\ vCreate' = "issued"
    /\ vPc' = "create"
    /\ UNCHANGED <<openai, pinecone, vChunks, successCount, vErrors, vI,
                   vPromise, upserts>>
    /\ UNCHANGED <<crawlVars, downloadVars, segmentVars, mainVars, processVars, libraryVars>>

\* vectorizer.js:98-105: createIndex resolves; the wait of line 105 starts.
IndexCreated ==
    /\ vPc = "create"
    /\ vCreate' = "done"
    /\ vPc' = "wait"
    /\ UNCHANGED <<vListed, openai, pinecone, vChunks, successCount, vErrors, vI,
                   vPromise, upserts>>
    /\ UNCHANGED <<crawlVars, downloadVars, segmentVars, mainVars, processVars, libraryVars>>

\* vectorizer.js:105-108: the wait is over.
IndexInitialized ==
    /\ vPc = "wait"
    /\ vPc' = "batch"
    /\ UNCHANGED <<vListed, vCreate, openai, pinecone, vChunks, successCount,
                   vErrors, vI, vPromise, upserts>>
    /\ UNCHANGED <<crawlVars, downloadVars, segmentVars, mainVars, processVars, libraryVars>>

\* vectorizer.js:94, 98 and 108: listIndexes, createIndex or index throws.
IndexFailed ==
    /\ vPc \in {"start", "create"}
    /\ pinecone
    /\ GlobalError(<<"index request failed">>)

\* vectorizer.js:112-120 with 57-68: batch.map runs every callback up to its
\* first await.  Without an embeddings client generateEmbedding returns the
\* mock embedding at once and the upsert is issued with it.
StartBatch ==
    /\ vPc = "batch"
    /\ vI < Len(vChunks)
    /\ vPromise' =
          [j \in 1..Len(vChunks) |->
              IF j \notin ChunkBatch(vI) THEN vPromise[j]
              ELSE IF openai THEN ChunkPromise("embed", FALSE)
                   ELSE ChunkPromise("upsert", TRUE)]
    /\ upserts' =
          [j \in 1..Len(vChunks) |->
              IF j \in ChunkBatch(vI) /\ ~openai THEN ZeroVector ELSE upserts[j]]
    /\ vPc' = "await"
    /\ UNCHANGED <<vListed, vCreate, openai, pinecone, vChunks, successCount, vErrors, vI>>
    /\ UNCHANGED <<crawlVars, downloadVars, segmentVars, mainVars, processVars, libraryVars>>

\* What every step of one callback leaves alone.
ChunkFrame ==
    /\ UNCHANGED <<vListed, vCreate, openai, pinecone, vChunks, vI, vPc>>
    /\ UNCHANGED <<crawlVars, downloadVars, segmentVars, mainVars, processVars, libraryVars>>

\* vectorizer.js:64-70 and 120-134: the provider answers; the upsert is
\* issued with its embedding.
EmbeddingReturned(j) ==
    /\ vPromise[j].state = "embed"
    /\ vPromise' = [vPromise EXCEPT ![j] = ChunkPromise("upsert", FALSE)]
    /\ upserts' = [upserts EXCEPT ![j] = ProviderVector]
    /\ UNCHANGED <<successCount, vErrors>>
    /\ ChunkFrame

\* Variant of EmbeddingFailed in which generateEmbedding rethrows: the
\* callback's catch records the chunk as failed and nothing is upserted.
EmbeddingFailedThrows(j) ==
    /\ vPromise[j].state = "embed"
    /\ vPromise' = [vPromise EXCEPT ![j] = ChunkPromise("failed", TRUE)]
    /\ vErrors' = Append(vErrors, [id |-> vChunks[j], error |-> <<"embedding failed">>])
    /\ UNCHANGED <<successCount, upserts>>
    /\ ChunkFrame

\* vectorizer.js:71-75 and 120-134: the provider fails; generateEmbedding
\* returns the mock embedding and the upsert is issued with it.
EmbeddingFailed(j) ==
    /\ vPromise[j].state = "embed"
    /\ vPromise' = [vPromise EXCEPT ![j] = ChunkPromise("upsert", TRUE)]
    /\ upserts' = [upserts EXCEPT ![j] = ZeroVector]
    /\ UNCHANGED <<successCount, vErrors>>
    /\ ChunkFrame

\* vectorizer.js:130-137: the upsert resolves.
Upserted(j) ==
    /\ vPromise[j].state = "upsert"
    /\ vPromise' = [vPromise EXCEPT ![j].state = "ok"]
    /\ successCount' = successCount + 1
    /\ UNCHANGED <<vErrors, upserts>>
    /\ ChunkFrame

\* Variant of UpsertFailed in which the error leaves the callback, so that
\* Promise.all rejects and the outer catch ends vectorizeChunks.
UpsertFailedRejects(j) ==
    /\ vPromise[j].state = "upsert"
    /\ vPromise' = [vPromise EXCEPT ![j].state = "failed"]
    /\ vErrors' = Append(vErrors, [id |-> GlobalId, error |-> <<"upsert failed">>])
    /\ vPc' = "failed"
    /\ UNCHANGED <<vListed, vCreate, openai, pinecone, vChunks, successCount, vI, upserts>>
    /\ UNCHANGED <<crawlVars, downloadVars, segmentVars, mainVars, processVars, libraryVars>>

\* vectorizer.js:138-142: the upsert rejects.
UpsertFailed(j) ==
    /\ vPromise[j].state = "upsert"
    /\ vPromise' = [vPromise EXCEPT ![j].state = "failed"]
    /\ vErrors' = Append(vErrors, [id |-> vChunks[j], error |-> <<"upsert failed">>])
    /\ UNCHANGED <<successCount, upserts>>
    /\ ChunkFrame

\* vectorizer.js:145-150 and 112: Promise.all resolves; after the pause of
\* line 149, if another batch follows, i += BATCH_SIZE.
BatchDone ==
    /\ vPc = "await"
    /\ \A j \in ChunkBatch(vI) : vPromise[j].state \in {"ok", "failed"}
    /\ vI' = vI + VECTOR_BATCH_SIZE
    /\ vPc' = "batch"
    /\ UNCHANGED <<vListed, vCreate, openai, pinecone, vChunks, successCount, vErrors, vPromise,
                   upserts>>
    /\ UNCHANGED <<crawlVars, downloadVars, segmentVars, mainVars, processVars, libraryVars>>

\* vectorizer.js:112 and 153-158: the loop ends, the result is returned.
VectorReturn ==
    /\ vPc = "batch"
    /\ vI >= Len(vChunks)
    /\ vPc' = "done"
    /\ UNCHANGED <<vListed, vCreate, openai, pinecone, vChunks, successCount, vErrors, vI,
                   vPromise, upserts>>
    /\ UNCHANGED <<crawlVars, downloadVars, segmentVars, mainVars, processVars, libraryVars>>

\* The chunks whose callback awaits something.
ChunksAwaiting(state) ==
    {j \in 1..Len(vChunks) : vPromise[j].state = state}

VectorNext ==
    \/ ClientMissing
    \/ IndexReady
    \/ IndexMissing
    \/ IndexCreated
    \/ IndexInitialized
    \/ IndexFailed
    \/ StartBatch
    \/ \E j \in ChunksAwaiting("embed") : EmbeddingReturned(j)
    \/ \E j \in ChunksAwaiting("embed") : EmbeddingFailed(j)
    \/ \E j \in ChunksAwaiting("upsert") : Upserted(j)
    \/ \E j \in ChunksAwaiting("upsert") : UpsertFailed(j)
    \/ BatchDone
    \/ VectorReturn

VectorSpec == VectorInit /\ [][VectorNext]_vars

(***************************************************************************)
(* Properties of vectorizeChunks.                                          *)
(***************************************************************************)
ChunkErrors(id) == {k \in 1..Len(vErrors) : vErrors[k].id = id}

\* C14: with the vector client initialised and the index obtained,
\* vectorizeChunks returns successCount + (number of error entries) = number
\* of chunks, every chunk id counted exactly once as a success or as an
\* error, in every order of completion; a failing upsert stops neither the
\* other chunks of its batch nor the later batches.
EveryChunkCountedOnce ==
    /\ successCount = Cardinality(ChunksAwaiting("ok"))
    /\ \A j \in 1..Len(vChunks) :
          Cardinality(ChunkErrors(vChunks[j])) =
              IF vPromise[j].state = "failed" THEN 1 ELSE 0
    /\ vPc = "failed" =>
          /\ \A j \in 1..Len(vChunks) : vPromise[j].state = "new"
          /\ vErrors # <<>>
    /\ vPc = "done" =>
          /\ successCount + Len(vErrors) = Len(vChunks)
          /\ \A j \in 1..Len(vChunks) : vPromise[j].state \in {"ok", "failed"}
          /\ ChunkErrors(GlobalId) = {}

\* C14 witness: vectorizeChunks returned after an upsert failed in the
\* first batch while the other chunk of that batch and one of a later batch
\* succeeded.
UpsertFailureIsolated ==
    /\ vPc = "done"
    /\ Len(vChunks) > VECTOR_BATCH_SIZE
    /\ vPromise[1].state = "failed"
    /\ vPromise[2].state = "ok"
    /\ vPromise[Len(vChunks)].state = "ok"
    /\ successCount + Len(vErrors) = Len(vChunks)

\* C15 as stated: a chunk whose embedding failed is upserted with the
\* all-zero vector of dimension 1536 and is counted in successCount, not in
\* errors.
MockEmbeddingCountedAsSuccess ==
    vPc = "done" =>
        \A j \in 1..Len(vChunks) :
            vPromise[j].mock =>
                /\ upserts[j] = ZeroVector
                /\ vPromise[j].state = "ok"
                /\ ChunkErrors(vChunks[j]) = {}

\* C15, amended: a chunk whose embedding failed (or whose embeddings client
\* is missing) is upserted with the all-zero vector of dimension 1536; the
\* embedding failure adds no entry to errors, and the chunk is counted in
\* successCount unless the upsert itself fails.
MockEmbeddingUpserted ==
    /\ [](~openai =>
          \A j \in 1..Len(vChunks) : vPromise[j].state # "new" => vPromise[j].mock)
    /\ [](\A j \in 1..Len(vChunks) :
          vPromise[j].mock =>
              /\ Len(upserts[j]) = 1536
              /\ \A k \in 1..Len(upserts[j]) : upserts[j][k] = 0
              /\ vPromise[j].state \in {"upsert", "ok", "failed"}
              /\ vPromise[j].state = "upsert" => ChunkErrors(vChunks[j]) = {})
    /\ [][\A j \in 1..Len(vChunks) :
             (vPromise[j].mock /\ vPromise[j].state = "upsert"
                 /\ vPromise'[j].state # "upsert") =>
                 \/ /\ vPromise'[j].state = "ok"
                    /\ successCount' = successCount + 1
                    /\ vErrors' = vErrors
                 \/ /\ vPromise'[j].state = "failed"
                    /\ vErrors'[Len(vErrors')].error = <<"upsert failed">>]_vars

\* C15 witness: a run in which the provider failed for the first chunk and
\* answered for the second; both were upserted and counted as successes.
MockEmbeddingSucceeded ==
    /\ vPc = "done"
    /\ openai
    /\ Len(vChunks) >= 2
    /\ vPromise[1] = ChunkPromise("ok", TRUE)
    /\ upserts[1] = ZeroVector
    /\ vPromise[2] = ChunkPromise("ok", FALSE)
    /\ upserts[2] = ProviderVector
    /\ vErrors = <<>>
    /\ successCount = Len(vChunks)

(***************************************************************************)
(* splitIntoChunks (src/unnamed/part_003:205-291).                         *)
(*                                                                         *)
(* A text is a sequence of lexemes: a newline, a plain character "x", a    *)
(* heading "S" that the first section pattern matches after a newline      *)
(* ("Section 1", line 212) and a heading "N" that the third one matches    *)
(* ("1. A", line 214).  A heading counts HeadingWidth characters, every    *)
(* other lexeme one.  The texts of the model hold no other white space     *)
(* than newlines and no match of the patterns of lines 213, 215 and 216.   *)
(* Of a chunk the model keeps its content; id and metadata (lines 276-286) *)
(* are computed from it and read by no step of the split.                  *)
(***************************************************************************)
\* part_003:207-208 set MAX_CHUNK_SIZE = 1000 and MIN_CHUNK_SIZE = 100; the
\* model runs the same code on short texts with smaller sizes.
MAX_CHUNK_SIZE == 5
MIN_CHUNK_SIZE == 4
\* Characters a heading counts.
HeadingWidth == 3
\* Longest text, in lexemes.
MaxTextLen == 8

Newline == "\n"
Lexemes == {Newline, "x", "S", "N"}
Texts == SeqsUpTo(Lexemes, MaxTextLen)

\* part_003:211-217, in the order they are tried.
sectionPatterns == <<"S", "N">>

\* String.prototype.length.
RECURSIVE TextLength(_)
TextLength(t) ==
    IF t = <<>> THEN 0
    ELSE (IF Head(t) \in {"S", "N"} THEN HeadingWidth ELSE 1) + TextLength(Tail(t))

\* The text without its leading newlines.
RECURSIVE TrimStart(_)
TrimStart(t) ==
    IF t # <<>> /\ Head(t) = Newline THEN TrimStart(Tail(t)) ELSE t

\* String.prototype.trim.
RECURSIVE Trim(_)
Trim(t) ==
    IF t # <<>> /\ t[Len(t)] = Newline THEN Trim(SubSeq(t, 1, Len(t) - 1))
    ELSE TrimStart(t)

\* part_003:223: the indices of the matches of /\n\s*h/g in t, i.e. the
\* first newline of every run of newlines that a heading h follows.
MatchIndices(t, h) ==
    {i \in 1..Len(t) :
        /\ t[i] = Newline
        /\ i = 1 \/ t[i - 1] # Newline
        /\ \E j \in (i + 1)..Len(t) :
              t[j] = h /\ \A k \in i..(j - 1) : t[k] = Newline}

\* part_003:226-236: the trimmed text from each match to the next, without
\* the sections shorter than MIN_CHUNK_SIZE.
RECURSIVE SectionsFrom(_, _)
SectionsFrom(t, starts) ==
    IF starts = {} THEN <<>>
    ELSE LET start == CHOOSE i \in starts : \A k \in starts : i <= k
             later == starts \ {start}
             end == IF later = {} THEN Len(t)
                    ELSE (CHOOSE i \in later : \A k \in later : i <= k) - 1
             sectionText == Trim(SubSeq(t, start, end))
         IN (IF TextLength(sectionText) >= MIN_CHUNK_SIZE
             THEN <<sectionText>> ELSE <<>>) \o SectionsFrom(t, later)

\* part_003:219-243: the sections of the first pattern that has more than
\* one match and leaves at least one section.
RECURSIVE StructuralSections(_, _)
StructuralSections(t, patterns) ==
    IF patterns = <<>> THEN <<>>
    ELSE LET matches == MatchIndices(t, Head(patterns))
             sections == IF Cardinality(matches) > 1
                         THEN SectionsFrom(t, matches) ELSE <<>>
         IN IF Len(sections) > 0 THEN sections
            ELSE StructuralSections(t, Tail(patterns))

\* part_003:247: text.split(/\n\s*\n/): the pieces between the runs of two
\* or more newlines.
RECURSIVE Paragraphs(_, _)
Paragraphs(t, piece) ==
    IF t = <<>> THEN <<piece>>
    ELSE IF Len(t) >= 2 /\ t[1] = Newline /\ t[2] = Newline
         THEN <<piece>> \o Paragraphs(TrimStart(t), <<>>)
         ELSE Paragraphs(Tail(t), Append(piece, Head(t)))

\* part_003:259-261 and 268-270: the buffer becomes a section if it is long
\* enough.
Flush(sections, currentSection) ==
    IF TextLength(currentSection) >= MIN_CHUNK_SIZE
    THEN Append(sections, Trim(currentSection)) ELSE sections

\* part_003:249-270: the paragraphs are gathered into sections.
RECURSIVE ParagraphSections(_, _, _)
ParagraphSections(paragraphs, sections, currentSection) ==
    IF paragraphs = <<>> THEN Flush(sections, currentSection)
    ELSE LET trimmedParagraph == Trim(Head(paragraphs)) IN
         IF trimmedParagraph = <<>>
         THEN ParagraphSections(Tail(paragraphs), sections, currentSection)
         ELSE IF TextLength(currentSection) + TextLength(trimmedParagraph)
                     > MAX_CHUNK_SIZE
         THEN ParagraphSections(Tail(paragraphs),
                                Flush(sections, currentSection),
                                trimmedParagraph)
         ELSE ParagraphSections(Tail(paragraphs), sections,
                  currentSection \o <<Newline, Newline>> \o trimmedParagraph)

\* part_003:205-291: the contents of the chunks, in order.
splitIntoChunks(t) ==
    LET sections == StructuralSections(t, sectionPatterns) IN
    IF Len(sections) <= 1
    THEN ParagraphSections(Paragraphs(t, <<>>), <<>>, <<>>)
    ELSE sections

SegmentInit ==
    /\ text \in Texts
    /\ chunks = <<>>
    /\ again = <<>>
    /\ segPc = "text"
    /\ CrawlIdle /\ DownloadIdle /\ VectorIdle /\ MainIdle
    /\ ProcessIdle /\ LibraryIdle

\* part_003:36: the text of a document is split.
Segment ==
    /\ segPc = "text"
    /\ chunks' = splitIntoChunks(text)
    /\ segPc' = "chunks"
    /\ UNCHANGED <<text, again>>
    /\ UNCHANGED <<crawlVars, downloadVars, vectorVars, mainVars, processVars, libraryVars>>

\* The content of the first chunk is split again.
Resegment ==
    /\ segPc = "chunks"
    /\ chunks # <<>>
    /\ again' = splitIntoChunks(chunks[1])
    /\ segPc' = "again"
    /\ UNCHANGED <<text, chunks>>
    /\ UNCHANGED <<crawlVars, downloadVars, vectorVars, mainVars, processVars, libraryVars>>

SegmentNext ==
    \/ Segment
    \/ Resegment

SegmentSpec == SegmentInit /\ [][SegmentNext]_vars

(***************************************************************************)
(* Properties of splitIntoChunks.                                          *)
(***************************************************************************)
\* The lexemes of a text that are not white space, in order.
NonSpace(t) == SelectSeq(t, LAMBDA c : c # Newline)

\* The contents of a list of chunks, one after the other.
RECURSIVE Concat(_)
Concat(sections) ==
    IF sections = <<>> THEN <<>> ELSE Head(sections) \o Concat(Tail(sections))

\* C17: splitIntoChunks applied to a non-empty text (here: even one that
\* holds more than white space) returns at least one chunk.
TextYieldsChunk ==
    (segPc # "text" /\ NonSpace(text) # <<>>) => chunks # <<>>

\* C18: no text is dropped: the chunks hold, in order, every lexeme of the
\* text that is not white space.
NoTextDropped ==
    segPc # "text" => NonSpace(Concat(chunks)) = NonSpace(text)

\* C19: every chunk but the last one has a content of at least
\* MIN_CHUNK_SIZE characters.
ChunksAtLeastMinSize ==
    segPc # "text" =>
        \A i \in 1..(Len(chunks) - 1) : TextLength(chunks[i]) >= MIN_CHUNK_SIZE

\* C20: splitting the content of the first chunk again returns exactly one
\* chunk, with that content.
SegmentIdempotent ==
    segPc = "again" => again = <<chunks[1]>>

(***************************************************************************)
(* main (src/scripts/ingestDocuments.js:24-134).                           *)
(*                                                                         *)
(* main calls crawlDocumentLibrary, downloadDocuments, processDocuments    *)
(* and vectorizeChunks in turn.  downloadDocuments and vectorizeChunks run *)
(* as modelled above.  crawlDocumentLibrary (documentCrawler.js:95-157)    *)
(* and processDocuments (part_003:10-66) catch every error of theirs and   *)
(* return a list: of main's steps they are the choice of that list.        *)
(***************************************************************************)
MainInit ==
    /\ mainPc = "start"
    /\ exitCode = -1
    /\ CrawlIdle /\ DownloadIdle /\ VectorIdle /\ SegmentIdle
    /\ ProcessIdle /\ LibraryIdle

\* What a step of main leaves alone, but for the function it calls.
MainFrame == UNCHANGED <<crawlVars, segmentVars, processVars, libraryVars>>

\* ingestDocuments.js:37-42: a required variable is missing.
EnvironmentMissing ==
    /\ mainPc = "start"
    /\ mainPc' = "misconfigured"
    /\ exitCode' = 1
    /\ UNCHANGED <<downloadVars, vectorVars>>
    /\ MainFrame

\* ingestDocuments.js:37-52: the configuration is complete;
\* crawlDocumentLibrary is called.
EnvironmentChecked ==
    /\ mainPc = "start"
    /\ mainPc' = "crawl"
    /\ UNCHANGED <<exitCode, downloadVars, vectorVars>>
    /\ MainFrame

\* ingestDocuments.js:52-71: crawlDocumentLibrary returns its documents, the
\* results are written and downloadDocuments is called with the documents.
CallDownload(docs) ==
    /\ mainPc = "crawl"
    /\ mainPc' = "download"
    /\ dlDocuments' = docs
    /\ dlPromise' = [j \in 1..Len(docs) |-> Pending("new")]
    /\ dlFetches' = [j \in 1..Len(docs) |-> 0]
    /\ dlPc' = "start"
    /\ UNCHANGED <<updatedDocuments, dlErrors, dlI, dlPauses>>
    /\ UNCHANGED <<exitCode, vectorVars>>
    /\ MainFrame

\* ingestDocuments.js:71 and 130-133: downloadDocuments threw.
DownloadThrew ==
    /\ mainPc = "download"
    /\ dlPc = "thrown"
    /\ mainPc' = "failed"
    /\ exitCode' = 1
    /\ UNCHANGED <<downloadVars, vectorVars>>
    /\ MainFrame

\* ingestDocuments.js:71: downloadDocuments returned.
DownloadReturned ==
    /\ mainPc = "download"
    /\ dlPc = "done"
    /\ mainPc' = "downloaded"
    /\ UNCHANGED <<exitCode, downloadVars, vectorVars>>
    /\ MainFrame

\* ingestDocuments.js:74-111: the download results are written,
\* processDocuments returns n chunks (none unless a document was saved,
\* part_003:19), they are written and vectorizeChunks is called with them.
\* The clients of vectorizer.js:31-50 are read here for the first time.
CallVectorize(n, embeddings, store) ==
    /\ mainPc = "downloaded"
    /\ n = 0 \/ \E j \in 1..Len(updatedDocuments) : updatedDocuments[j].localPath
    /\ mainPc' = "vectorize"
    /\ openai' = embeddings
    /\ pinecone' = store
    /\ vChunks' = [j \in 1..n |-> j]
    /\ vPromise' = [j \in 1..n |-> ChunkPromise("new", FALSE)]
    /\ upserts' = [j \in 1..n |-> <<>>]
    /\ vPc' = "start"
    /\ UNCHANGED <<successCount, vErrors, vI, vListed, vCreate>>
    /\ dlDocuments' = <<>>
    /\ updatedDocuments' = <<>>
    /\ dlErrors' = <<>>
    /\ dlI' = 0
    /\ dlPromise' = <<>>
    /\ dlPc' = "idle"
    /\ dlFetches' = <<>>
    /\ dlPauses' = 0
    /\ UNCHANGED exitCode
    /\ MainFrame

\* ingestDocuments.js:111-128: vectorizeChunks returned (from line 155 or
\* from its catch, line 164), the results are written and main ends.
VectorizeReturned ==
    /\ mainPc = "vectorize"
    /\ vPc \in {"done", "failed"}
    /\ mainPc' = "end"
    /\ exitCode' = 0
    /\ UNCHANGED <<downloadVars, vectorVars>>
    /\ MainFrame

\* ingestDocuments.js:130-133: mkdirSync (47) or one of the writeFileSync
\* calls (55-66, 74-87 and 95-106, 114-125) threw.
FileSystemFailed ==
    /\ \/ mainPc \in {"crawl", "downloaded"}
       \/ mainPc = "vectorize" /\ vPc \in {"done", "failed"}
    /\ mainPc' = "failed"
    /\ exitCode' = 1
    /\ UNCHANGED <<downloadVars, vectorVars>>
    /\ MainFrame

MainNext ==
    \/ EnvironmentMissing
    \/ EnvironmentChecked
    \/ \E docs \in DocumentLists : CallDownload(docs)
    \/ DownloadThrew
    \/ DownloadReturned
    \/ \E n \in 0..MaxChunks, embeddings \in BOOLEAN, store \in BOOLEAN :
          CallVectorize(n, embeddings, store)
    \/ VectorizeReturned
    \/ FileSystemFailed
    \/ DownloadNext
    \/ VectorNext

MainSpec == MainInit /\ [][MainNext]_vars

(***************************************************************************)
(* Properties of main.                                                     *)
(***************************************************************************)
\* C16: with the configuration present no failure of a stage is fatal:
\* no stage throws, and the run does not exit with a failure code because
\* of a stage.
StageFailureNeverFatal ==
    ~(dlPc = "thrown" /\ mainPc = "failed" /\ exitCode = 1)

(***************************************************************************)
(* processDocuments: documentProcessor (part_003:10-66, used by            *)
(* scripts/ingestDocuments.js) and processor (part_004:88-125, used by     *)
(* scripts/ingest.js).                                                     *)
(*                                                                         *)
(* Of a document the model keeps what the two functions read: whether it   *)
(* has a localPath, whether fs.readFileSync and pdfParse succeed on it,    *)
(* its documentType and category, and of its text the topics whose regular *)
(* expression matches and the list text.match(/\b(19|20)\d{2}\b/g).  All   *)
(* chunks of a document of documentProcessor carry the same tags           *)
(* (part_003:47, 127); the model keeps one chunk per parsed document.      *)
(***************************************************************************)
MaxProcessed == 2
MaxYearMatches == 2

\* The years a text mentions, in ascending order of their strings.
Years == <<"2019", "2020">>
YearRank(year) == CHOOSE r \in 1..Len(Years) : Years[r] = year

\* part_003:162-179, part_004:325-336: the topics, in the order of the keys.
topicKeywords == <<"zoning", "fees">>

\* documentCrawler.js:62-79: documentType and category of a descriptor; a
\* descriptor may also carry neither.
DocumentHints ==
    { [documentType |-> "", category |-> ""],
      [documentType |-> "policy", category |-> "Policies & Procedures"] }

\* part_003:149-154: the tag made of a category.
CategoryTag(category) ==
    IF category = "Policies & Procedures" THEN "policies-and-procedures"
    ELSE ""

ProcessedDocument(j, hint, localPath, readable, topics, yearMatches) ==
    [id |-> j, documentType |-> hint.documentType, category |-> hint.category,
     localPath |-> localPath, readable |-> readable, topics |-> topics,
     yearMatches |-> yearMatches]

\* What a document of the input can be.
DocumentChoices ==
    DocumentHints \X BOOLEAN \X BOOLEAN
        \X (SUBSET {topicKeywords[k] : k \in 1..Len(topicKeywords)})
        \X SeqsUpTo({Years[r] : r \in 1..Len(Years)}, MaxYearMatches)

\* [...new Set(list)] (part_003:191, 195): the first occurrences, in order.
RECURSIVE RemoveDuplicates(_)
RemoveDuplicates(list) ==
    IF list = <<>> THEN <<>>
    ELSE LET rest == RemoveDuplicates(SubSeq(list, 1, Len(list) - 1))
             x == list[Len(list)]
         IN IF \E k \in 1..Len(rest) : rest[k] = x THEN rest
            ELSE Append(rest, x)

\* .sort().reverse() of a list of distinct years (part_003:191).
RECURSIVE Descending(_)
Descending(S) ==
    IF S = {} THEN <<>>
    ELSE LET top == CHOOSE y \in S : \A z \in S : YearRank(z) <= YearRank(y)
         IN <<top>> \o Descending(S \ {top})

Slice2(list) == SubSeq(list, 1, IF Len(list) < 2 THEN Len(list) ELSE 2)

\* part_003:143-145, part_004:320-322.
TypeTags(document) ==
    IF document.documentType # "" THEN <<document.documentType>> ELSE <<>>

\* part_003:181-185, part_004:338-342.
TopicTags(document) ==
    SelectSeq(topicKeywords, LAMBDA topic : topic \in document.topics)

YearTag(year) == "year-" \o year

\* extractTags of documentProcessor (part_003:138-196).
extractTags(document) ==
    LET categoryTags ==
            IF document.category # "" /\ CategoryTag(document.category) # ""
            THEN <<CategoryTag(document.category)>> ELSE <<>>
        uniqueYears ==
            Slice2(Descending({document.yearMatches[k] :
                                 k \in 1..Len(document.yearMatches)}))
        yearTags == [k \in 1..Len(uniqueYears) |-> YearTag(uniqueYears[k])]
    IN RemoveDuplicates(TypeTags(document) \o categoryTags
                          \o TopicTags(document) \o yearTags)

\* extractTags of processor (part_004:316-357); the text of the model has
\* no bylaw number (part_004:345-348).
processorExtractTags(document) ==
    LET years == Slice2(document.yearMatches)
        yearTags == [k \in 1..Len(years) |-> YearTag(years[k])]
    IN TypeTags(document) \o TopicTags(document) \o yearTags

Chunk(document, tags) == [document |-> document.id, tags |-> tags]

ProcessInit ==
    /\ pipeline \in {"documentProcessor", "processor"}
    /\ \E n \in 0..MaxProcessed : \E f \in [1..n -> DocumentChoices] :
          pDocuments = [j \in 1..n |->
              ProcessedDocument(j, f[j][1], f[j][2], f[j][3], f[j][4], f[j][5])]
    /\ pI = 0
    /\ allChunks = <<>>
    /\ pErrors = <<>>
    /\ pPc = "loop"
    /\ CrawlIdle /\ DownloadIdle /\ VectorIdle /\ SegmentIdle /\ MainIdle
    /\ LibraryIdle

ProcessFrame ==
    UNCHANGED <<crawlVars, downloadVars, vectorVars, segmentVars, mainVars,
                libraryVars>>

\* One iteration of the loop of documentProcessor (part_003:16-61).
DocumentProcessorStep ==
    /\ pipeline = "documentProcessor"
    /\ pPc = "loop"
    /\ pI < Len(pDocuments)
    /\ pI' = pI + 1
    /\ LET document == pDocuments[pI + 1] IN
         IF ~document.localPath
         THEN UNCHANGED <<allChunks, pErrors>>
         ELSE IF ~document.readable
         THEN /\ pErrors' = Append(pErrors, [id |-> document.id])
              /\ UNCHANGED allChunks
         ELSE /\ allChunks' = Append(allChunks, Chunk(document, extractTags(document)))
              /\ UNCHANGED pErrors
    /\ UNCHANGED <<pipeline, pDocuments, pPc>>
    /\ ProcessFrame

\* One iteration of the loop of processor (part_004:91-122), with
\* processPdfDocument (part_004:130-182), whose catch returns no chunk.
ProcessorStep ==
    /\ pipeline = "processor"
    /\ pPc = "loop"
    /\ pI < Len(pDocuments)
    /\ pI' = pI + 1
    /\ LET document == pDocuments[pI + 1] IN
         IF document.localPath /\ document.readable
         THEN allChunks' = Append(allChunks,
                                  Chunk(document, processorExtractTags(document)))
         ELSE UNCHANGED allChunks
    /\ UNCHANGED <<pipeline, pDocuments, pErrors, pPc>>
    /\ ProcessFrame

\* part_003:65, part_004:124.
ProcessReturn ==
    /\ pPc = "loop"
    /\ pI = Len(pDocuments)
    /\ pPc' = "done"
    /\ UNCHANGED <<pipeline, pDocuments, pI, allChunks, pErrors>>
    /\ ProcessFrame

ProcessNext ==
    \/ DocumentProcessorStep
    \/ ProcessorStep
    \/ ProcessReturn

ProcessSpec == ProcessInit /\ [][ProcessNext]_vars

(***************************************************************************)
(* Properties of processDocuments.                                         *)
(***************************************************************************)
\* C21: the tags of every emitted chunk contain no duplicate value, in both
\* pipelines.
TagsHaveNoDuplicates ==
    \A c \in 1..Len(allChunks) :
        \A k, l \in 1..Len(allChunks[c].tags) :
            allChunks[c].tags[k] = allChunks[c].tags[l] => k = l

\* C23: on return, every document whose reading or parsing failed has an
\* error entry and no chunk, and every other document with a localPath has
\* been processed into its chunk.
ParseFailureRecorded ==
    pPc = "done" =>
        \A j \in 1..Len(pDocuments) :
            LET failed == pDocuments[j].localPath /\ ~pDocuments[j].readable
                parsed == pDocuments[j].localPath /\ pDocuments[j].readable
                hasChunk == \E c \in 1..Len(allChunks) : allChunks[c].document = j
            IN /\ failed => /\ \E e \in 1..Len(pErrors) : pErrors[e].id = j
                             /\ ~hasChunk
               /\ parsed => hasChunk

(***************************************************************************)
(* crawlDocumentLibrary (documentCrawler.js:95-157).                       *)
(***************************************************************************)
MaxPageLinks == 1

\* documentCrawler.js:97 and 115-120.
documentLibraryUrl == "/EN/main/town/documents.html"
categoryPages ==
    << "/EN/main/town/documents/policies.html",
       "/EN/main/town/documents/reportsplans.html",
       "/EN/main/town/documents/publications.html",
       "/EN/main/town/documents/applicationsforms.html" >>

\* How a fetch is answered: with a 2xx status, with another status, or
\* not at all (fetch or response.text() rejects).
Answers == {"ok", "http", "network"}

\* documentCrawler.js:41-89: the URLs extractPdfLinks finds on a page.
LibraryLinks == SeqsUpTo({"/a.pdf", "/b.pdf"}, MaxPageLinks)

\* documentCrawler.js:131-135: the documents not yet in the list are pushed.
RECURSIVE PushNew(_, _)
PushNew(list, found) ==
    IF found = <<>> THEN list
    ELSE PushNew(IF \E k \in 1..Len(list) : list[k] = Head(found)
                 THEN list ELSE Append(list, Head(found)),
                 Tail(found))

LibraryInit ==
    /\ libDocuments = <<>>
    /\ libErrors = <<>>
    /\ libK = 0
    /\ libResponses = <<>>
    /\ libPc = "main"
    /\ CrawlIdle /\ DownloadIdle /\ VectorIdle /\ SegmentIdle /\ MainIdle
    /\ ProcessIdle

LibraryFrame ==
    UNCHANGED <<crawlVars, downloadVars, vectorVars, segmentVars, mainVars,
                processVars>>

\* documentCrawler.js:103-112 and 149-156: the main page.
MainPageFetched(answer, found) ==
    /\ libPc = "main"
    /\ libResponses' = Append(libResponses,
                              [url |-> documentLibraryUrl, status |-> answer])
    /\ IF answer = "ok"
       THEN /\ libDocuments' = libDocuments \o found
            /\ libPc' = "category"
            /\ UNCHANGED libErrors
       ELSE /\ libErrors' = Append(libErrors, [url |-> documentLibraryUrl])
            /\ libPc' = "done"
            /\ UNCHANGED libDocuments
    /\ UNCHANGED libK
    /\ LibraryFrame

\* documentCrawler.js:122-144: one category page.
CategoryPageFetched(answer, found) ==
    /\ libPc = "category"
    /\ libK < Len(categoryPages)
    /\ libK' = libK + 1
    /\ libResponses' = Append(libResponses,
                              [url |-> categoryPages[libK + 1], status |-> answer])
    /\ CASE answer = "ok" ->
              /\ libDocuments' = PushNew(libDocuments, found)
              /\ UNCHANGED libErrors
         [] answer = "http" ->
              UNCHANGED <<libDocuments, libErrors>>
         [] answer = "network" ->
              /\ libErrors' = Append(libErrors, [url |-> categoryPages[libK + 1]])
              /\ UNCHANGED libDocuments
    /\ UNCHANGED libPc
    /\ LibraryFrame

\* documentCrawler.js:146-147.
LibraryReturn ==
    /\ libPc = "category"
    /\ libK = Len(categoryPages)
    /\ libPc' = "done"
    /\ UNCHANGED <<libDocuments, libErrors, libK, libResponses>>
    /\ LibraryFrame

LibraryNext ==
    \/ \E answer \in Answers, found \in LibraryLinks : MainPageFetched(answer, found)
    \/ \E answer \in Answers, found \in LibraryLinks :
          CategoryPageFetched(answer, found)
    \/ LibraryReturn

LibrarySpec == LibraryInit /\ [][LibraryNext]_vars

(***************************************************************************)
(* Properties of crawlDocumentLibrary.                                     *)
(***************************************************************************)
\* C22: every failed page fetch, by status or by network error, is recorded
\* in errors with its URL, for the main page and for each category page, and
\* after a category page failed the remaining category pages are crawled.
LibraryFailureRecorded ==
    /\ \A k \in 1..Len(libResponses) :
          libResponses[k].status # "ok" =>
              \E e \in 1..Len(libErrors) : libErrors[e].url = libResponses[k].url
    /\ libPc = "done" /\ libResponses # <<>> /\ libResponses[1].status = "ok" =>
          Len(libResponses) = 1 + Len(categoryPages)

(***************************************************************************)
(* The frontier order of processHtmlPage (crawler.js:94-206), on a site    *)
(* that answers every page with HTML and that also names a PDF whose URL   *)
(* contains a priority keyword.                                            *)
(***************************************************************************)
BylawPdf == Url(BaseOrigin, "bylaw-1", "pdf", {"bylaw"})

PriorityUrls == Urls \cup {BylawPdf}

\* The anchors of a page of this site.
PriorityBodies == SeqsUpTo({BylawPdf, CouncilU, SitemapU, PdfA}, MaxLinks)

PriorityInit ==
    /\ urlsToVisit = SeedUrls
    /\ visitedUrls = {}
    /\ documents = <<>>
    /\ errors = <<>>
    /\ pageCount = 0
    /\ url = NoUrl
    /\ pc = "loop"
    /\ fetches = [u \in PriorityUrls |-> 0]
    /\ dequeued = 0
    /\ skipped = <<>>
    /\ last = NoResponse
    /\ DownloadIdle /\ VectorIdle /\ SegmentIdle /\ MainIdle
    /\ ProcessIdle /\ LibraryIdle

PriorityNext ==
    \/ Dequeue
    \/ IssueFetch
    \/ FetchNetworkError
    \/ \E hrefs \in PriorityBodies, bylawText \in BOOLEAN :
          HandleHtml("text/html", hrefs, bylawText)
    \/ Return

PrioritySpec == PriorityInit /\ [][PriorityNext]_vars

\* C24: after the HTML handler the URLs that were waiting still stand
\* together in the frontier, every same-domain URL that is new to the
\* frontier stands before them if it contains a priority keyword, and
\* after them if it does not.  The frontier is dequeued from its head
\* (crawler.js:40), so this is the order of dequeuing.
PriorityLinksFirst ==
    pc = "loop" /\ last.status = "ok" /\ IsHtmlType(last.contentType)
        /\ last.queue # <<>> =>
        \E h \in 0..(Len(urlsToVisit) - Len(last.queue)) :
            /\ SubSeq(urlsToVisit, h + 1, h + Len(last.queue)) = last.queue
            /\ \A k \in 1..Len(urlsToVisit) :
                  LET u == urlsToVisit[k] IN
                  StartsWithBase(u) /\ ~Includes(last.queue, u) =>
                      IF IsPriority(u) THEN k <= h
                      ELSE k > h + Len(last.queue)

(***************************************************************************)
(* The index of vectorizeChunks (vectorizer.js:92-108).                    *)
(***************************************************************************)
UpsertIssued == \E j \in 1..Len(upserts) : upserts[j] # <<>>

\* C25: createIndex is called whenever listIndexes does not name the
\* configured index and only then, and no upsert is issued before the index
\* was listed or createIndex has completed.
IndexCreatedOnFirstUse ==
    /\ vListed = "absent" <=> vCreate # "none"
    /\ UpsertIssued => vListed = "present" \/ vCreate = "done"

\* The index was absent, was created, and a chunk was upserted.
UpsertAfterCreate ==
    /\ vListed = "absent"
    /\ vCreate = "done"
    /\ UpsertIssued
    /\ successCount > 0

(***************************************************************************)
(* The cascade and the paragraph fallback of splitIntoChunks               *)
(* (part_003:211-271).                                                     *)
(***************************************************************************)
\* The usable sections one structural pattern yields.
UsableSections(t, h) ==
    IF Cardinality(MatchIndices(t, h)) > 1
    THEN SectionsFrom(t, MatchIndices(t, h)) ELSE <<>>

\* The patterns that yield at least 2 usable sections.
PatternsWithTwo(t) ==
    {p \in 1..Len(sectionPatterns) : Len(UsableSections(t, sectionPatterns[p])) >= 2}

\* C26: the chunks are the sections of the first pattern, in the listed
\* order, that yields at least 2 usable sections, and those of the paragraph
\* accumulation only when no pattern yields at least 2 usable sections.
FirstPatternWithTwoWins ==
    segPc = "chunks" =>
        chunks =
            IF PatternsWithTwo(text) # {}
            THEN UsableSections(text,
                     sectionPatterns[CHOOSE p \in PatternsWithTwo(text) :
                                        \A q \in PatternsWithTwo(text) : p <= q])
            ELSE ParagraphSections(Paragraphs(text, <<>>), <<>>, <<>>)

\* A section of the fallback holds two or more paragraphs exactly if it
\* holds the separator of part_003:264.
HasSeparator(t) ==
    \E i \in 1..(Len(t) - 1) : t[i] = Newline /\ t[i + 1] = Newline

\* C27: in the paragraph fallback every emitted section made of two or more
\* paragraphs is at most MAX_CHUNK_SIZE long, separators included.
JoinedSectionsWithinMax ==
    segPc = "chunks" /\ Len(StructuralSections(text, sectionPatterns)) <= 1 =>
        \A c \in 1..Len(chunks) :
            HasSeparator(chunks[c]) => TextLength(chunks[c]) <= MAX_CHUNK_SIZE

(***************************************************************************)
(* The dispatch of crawlMunicipalWebsite (crawler.js:61-72).               *)
(***************************************************************************)
\* The handlers that can take the awaited response if it declares ct.
HandlersFor(ct) ==
    {h \in {"html", "pdf", "sitemap", "skip"} :
        CASE h = "html" -> ENABLED (\E hrefs \in HtmlBodies, bylawText \in BOOLEAN :
                                       HandleHtml(ct, hrefs, bylawText))
          [] h = "pdf" -> ENABLED HandlePdf(ct)
          [] h = "sitemap" -> ENABLED (\E b \in SitemapBodies :
                                          HandleSitemap(ct, b[1], b[2]))
          [] h = "skip" -> ENABLED SkipUnsupported(ct)}

\* C28: an ok response is taken by at most one handler, and by the sitemap
\* handler whenever the URL ends in sitemap.xml or the content type is an
\* XML type, whatever the content type is otherwise.
SitemapHandlerAlways ==
    pc = "await" =>
        \A ct \in ContentTypes :
            /\ Cardinality(HandlersFor(ct)) <= 1
            /\ EndsWithSitemapXml(url) \/ IsXmlType(ct) =>
                   HandlersFor(ct) = {"sitemap"}

\* C29: every URL in the frontier and every fetched URL is a seed URL or
\* starts with baseUrl.
OnlySameDomainFetched ==
    LET Allowed(u) == StartsWithBase(u) \/ Includes(SeedUrls, u) IN
    /\ \A k \in 1..Len(urlsToVisit) : Allowed(urlsToVisit[k])
    /\ \A u \in Urls : fetches[u] > 0 => Allowed(u)

(***************************************************************************)
(* The result of downloadDocuments (documentCrawler.js:237-243).           *)
(***************************************************************************)
\* documentCrawler.js:237-239: the three counts.
Successful == {j \in 1..Len(updatedDocuments) : updatedDocuments[j].localPath}
Skipped == {j \in 1..Len(updatedDocuments) : updatedDocuments[j].skipped}
Failed == {j \in 1..Len(updatedDocuments) : updatedDocuments[j].error # NoError}

\* C30: downloadDocuments returns one result per input descriptor, in the
\* input order, whatever the order in which the downloads complete; each
\* result is downloaded, skipped or failed and only one of them; errors has
\* one entry per failed result; the three counts add up to the inputs.
OneResultPerDocument ==
    dlPc = "done" =>
        /\ Len(updatedDocuments) = Len(dlDocuments)
        /\ \A j \in DocIndices :
              /\ updatedDocuments[j].url = dlDocuments[j].url
              /\ updatedDocuments[j].fileSizeKB = dlDocuments[j].fileSizeKB
              /\ Cardinality({S \in {Successful, Skipped, Failed} : j \in S}) = 1
              /\ Cardinality(ErrorsFor(dlDocuments[j].url)) =
                     IF j \in Failed THEN 1 ELSE 0
        /\ Len(dlErrors) = Cardinality(Failed)
        /\ Cardinality(Successful) + Cardinality(Skipped) + Cardinality(Failed)
               = Len(dlDocuments)

\* C30 witness: a download has returned a saved, a skipped and two failed
\* documents, and the two failures of one group were recorded in the
\* reverse of their input order.
OutcomesOutOfOrder ==
    /\ dlPc = "done"
    /\ Successful # {} /\ Skipped # {}
    /\ \E j, k \in Failed :
          /\ j < k
          /\ GroupOf(j) = GroupOf(k)
          /\ \E e, f \in 1..Len(dlErrors) :
                /\ e < f
                /\ dlErrors[e].url = dlDocuments[k].url
                /\ dlErrors[f].url = dlDocuments[j].url

====
